---------------------------- MODULE Spec2Model ----------------------------
(***************************************************************************)
(* A model of CargoFitApp.py, the Streamlit script of the OnFly Air Cargo  *)
(* Fit Tool.                                                               *)
(*                                                                         *)
(* Streamlit runs the whole script top to bottom once per user             *)
(* interaction.  Widget values and st.session_state survive between runs;  *)
(* every other name of the script is recomputed by each run.               *)
(*                                                                         *)
(* Numbers are whole inches / pounds.  A pandas NaN (a missing or          *)
(* unparseable spreadsheet cell) is the value NaN below, with the float    *)
(* semantics the script relies on: arithmetic on NaN gives NaN and every   *)
(* comparison with NaN is false.                                           *)
(*                                                                         *)
(* Three specifications are defined:                                       *)
(*   Spec        the session: user interactions, each followed by the      *)
(*               script run it triggers (lines 75-198);                    *)
(*   SpecPayload the payload arithmetic of lines 191-210 applied to        *)
(*               bounded inputs;                                           *)
(*   SpecFit     the door check, cabin check and door drawing of lines     *)
(*               212-269 applied to bounded inputs.                        *)
(* Line 198 reads the name seats_removed, which no line of the script      *)
(* assigns.  Spec models what the script does there: the run ends in       *)
(* NameError, so lines 199-273 are never executed by the script as it      *)
(* stands.  SpecPayload and SpecFit describe what those lines compute      *)
(* once they are reached; in SpecPayload seats_removed is an input.        *)
(***************************************************************************)
EXTENDS Integers, Sequences, FiniteSets

VARIABLES
    ui,                 \* widget values kept by Streamlit between runs
    session_state,      \* st.session_state
    selected_aircraft,  \* row of df_aircraft chosen at line 81
    final_part_name,    \* lines 148 / 154
    part,               \* part_length, part_width, part_height, part_weight
    seats_removed,      \* free name read at line 198
    total_cargo_weight, \* line 196
    additional_payload, \* line 198
    available_payload,  \* line 200
    fits_door,          \* lines 214-218
    cabin_fit,          \* lines 228-232
    color,              \* line 254
    messages,           \* st.success / st.error / st.warning / st.info calls of the run
    pc,                 \* where the script run stands, or the exception that ended it
    interactions        \* user interactions so far in the session

vars == <<ui, session_state, selected_aircraft, final_part_name, part, seats_removed,
          total_cargo_weight, additional_payload, available_payload,
          fits_door, cabin_fit, color, messages, pc, interactions>>

---------------------------------------------------------------------------
(* Floats with NaN *)

\* float('nan') (line 197), and what pd.to_numeric(errors="coerce") yields
\* for a cell it cannot parse (lines 40, 63)
NaN == -1

isnull(x) == x = NaN
notnull(x) == x # NaN

\* a + b on floats
Add(a, b) == IF isnull(a) \/ isnull(b) THEN NaN ELSE a + b
\* a * b on floats
Mul(a, b) == IF isnull(a) \/ isnull(b) THEN NaN ELSE a * b
\* a <= b on floats: false when either side is NaN
Leq(a, b) == notnull(a) /\ notnull(b) /\ a <= b

---------------------------------------------------------------------------
(* Tolerant numeric parsing of spreadsheet cells (lines 57-63, 33-40).     *)
(* A cell is the sequence of its characters.                               *)

Digits == {"0", "1", "2", "3", "4", "5", "6", "7", "8", "9"}

DigitVal(c) ==
    CASE c = "0" -> 0 [] c = "1" -> 1 [] c = "2" -> 2 [] c = "3" -> 3
      [] c = "4" -> 4 [] c = "5" -> 5 [] c = "6" -> 6 [] c = "7" -> 7
      [] c = "8" -> 8 [] c = "9" -> 9

\* str.replace(c, "", regex=False): every occurrence of c removed
RECURSIVE str_replace(_, _)
str_replace(s, c) ==
    IF s = <<>> THEN <<>>
    ELSE IF Head(s) = c THEN str_replace(Tail(s), c)
         ELSE <<Head(s)>> \o str_replace(Tail(s), c)

RECURSIVE lstrip(_)
lstrip(s) == IF s # <<>> /\ Head(s) = " " THEN lstrip(Tail(s)) ELSE s

RECURSIVE rstrip(_)
rstrip(s) ==
    IF s # <<>> /\ s[Len(s)] = " " THEN rstrip(SubSeq(s, 1, Len(s) - 1)) ELSE s

\* str.strip()
str_strip(s) == rstrip(lstrip(s))

RECURSIVE DecimalValue(_)
DecimalValue(s) ==
    IF s = <<>> THEN 0
    ELSE 10 * DecimalValue(SubSeq(s, 1, Len(s) - 1)) + DigitVal(s[Len(s)])

\* pd.to_numeric(errors="coerce") on one cell: its number, or NaN
to_numeric(s) ==
    IF s # <<>> /\ \A i \in 1..Len(s) : s[i] \in Digits
    THEN DecimalValue(s)
    ELSE NaN

\* lines 60-63 applied to one cell
clean_numeric(s) == to_numeric(str_strip(str_replace(str_replace(s, ","), "~")))

\* lines 35-40 applied to a cell of the column "Removable Seats"
clean_removable_seats(s) ==
    LET t == str_strip(str_replace(str_replace(s, ","), "~"))
        u == IF t = <<"Y", "e", "s">> THEN <<"2">>
             ELSE IF t = <<"N", "o">> THEN <<"0">> ELSE t
    IN  to_numeric(u)

---------------------------------------------------------------------------
(* Reference data: the two published spreadsheets, as read by pd.read_csv. *)

\* the Historical Parts sheet (line 56: "Part Name", "Length (in)",
\* "Width (in)", "Height (in)", "Weight (lbs)"), cells as text
HistoricalPartsCsv ==
    << [Part_Name |-> "Gearbox",
        Length |-> <<"5", "5">>, Width |-> <<"4", "5">>,
        Height |-> <<"4", "0">>, Weight |-> <<"4", "0", "0">>],
       [Part_Name |-> "Prop",
        Length |-> <<"~", "6", "0">>, Width |-> <<" ", "5", "0">>,
        Height |-> <<"n", "/", "a">>, Weight |-> <<"1", ",", "0", "4", "0">>],
       [Part_Name |-> "Strut",
        Length |-> <<"n", "a", "n">>, Width |-> <<"T", "B", "D">>,
        Height |-> <<"4", "0">>, Weight |-> <<"n", "a", "n">>] >>

\* the Aircraft sheet, cells as text
AircraftCsv ==
    << [Aircraft |-> "PC-12",
        Door_Width |-> <<"6", "0">>, Door_Height |-> <<"5", "0">>,
        Cabin_Length |-> <<"1", "0", "0">>, Cabin_Width |-> <<"6", "0">>,
        Cabin_Height |-> <<"5", "0">>, Max_Payload |-> <<"5", "0", "0">>,
        Number_of_Seats |-> <<"4">>, Removable_Seats |-> <<"Y", "e", "s">>,
        Seat_Weight |-> <<"2", "0">>],
       [Aircraft |-> "TBM",
        Door_Width |-> <<"~", "5", "0">>, Door_Height |-> <<"n", "a", "n">>,
        Cabin_Length |-> <<"9", "0">>, Cabin_Width |-> <<"5", "0">>,
        Cabin_Height |-> <<"5", "0">>, Max_Payload |-> <<"1", ",", "5", "0", "0">>,
        Number_of_Seats |-> <<"4">>, Removable_Seats |-> <<"T", "B", "D">>,
        Seat_Weight |-> <<"n", "a", "n">>] >>

\* load_historical_parts: the numeric columns cleaned and coerced
load_historical_parts(csv) ==
    [i \in DOMAIN csv |->
        [Part_Name |-> csv[i].Part_Name,
         Length |-> clean_numeric(csv[i].Length),
         Width |-> clean_numeric(csv[i].Width),
         Height |-> clean_numeric(csv[i].Height),
         Weight |-> clean_numeric(csv[i].Weight)]]

\* load_aircraft_data: the numeric columns cleaned and coerced
load_aircraft_data(csv) ==
    [i \in DOMAIN csv |->
        [Aircraft |-> csv[i].Aircraft,
         Door_Width |-> clean_numeric(csv[i].Door_Width),
         Door_Height |-> clean_numeric(csv[i].Door_Height),
         Cabin_Length |-> clean_numeric(csv[i].Cabin_Length),
         Cabin_Width |-> clean_numeric(csv[i].Cabin_Width),
         Cabin_Height |-> clean_numeric(csv[i].Cabin_Height),
         Max_Payload |-> clean_numeric(csv[i].Max_Payload),
         Number_of_Seats |-> clean_numeric(csv[i].Number_of_Seats),
         Removable_Seats |-> clean_removable_seats(csv[i].Removable_Seats),
         Seat_Weight |-> clean_numeric(csv[i].Seat_Weight)]]

df_aircraft == load_aircraft_data(AircraftCsv)
df_hist_parts == load_historical_parts(HistoricalPartsCsv)

\* line 79: the names offered by the aircraft selectbox
aircraft_options == {df_aircraft[i].Aircraft : i \in DOMAIN df_aircraft}

\* line 81: the first row with the selected name
AircraftRow(model) ==
    LET i == CHOOSE k \in DOMAIN df_aircraft :
                 /\ df_aircraft[k].Aircraft = model
                 /\ \A j \in DOMAIN df_aircraft :
                        df_aircraft[j].Aircraft = model => k <= j
    IN  df_aircraft[i]

NoneOption == "(None)"

\* line 112: the names offered by the historical part selectbox
hist_part_options ==
    {NoneOption} \cup {df_hist_parts[i].Part_Name : i \in DOMAIN df_hist_parts}

\* lines 134-142: the record stored for the selected historical part
HistoricalPartRecord(name) ==
    LET i == CHOOSE k \in DOMAIN df_hist_parts :
                 /\ df_hist_parts[k].Part_Name = name
                 /\ \A j \in DOMAIN df_hist_parts :
                        df_hist_parts[j].Part_Name = name => k <= j
        rec == df_hist_parts[i]
    IN  [Part_Name |-> name, Length |-> rec.Length, Width |-> rec.Width,
         Height |-> rec.Height, Weight |-> rec.Weight]

---------------------------------------------------------------------------
(* Widgets *)

\* A number_input's state is <<>> until the user types a value v, then <<v>>;
\* the widget returns its value= default until then.
number_input(w, default) == IF w = <<>> THEN default ELSE w[1]

\* line 193: value=180.0 of "Average Weight per Mechanic (lbs)"
DefaultMechWeight == 180

\* line 192
NumMechanics(u) == IF u.mechanics_travel THEN number_input(u.num_mechanics, 1) ELSE 0
\* line 193
AvgMechWeight(u) ==
    IF u.mechanics_travel THEN number_input(u.avg_mech_weight, DefaultMechWeight) ELSE 0
\* line 194
ToolWeight(u) == IF u.mechanics_travel THEN number_input(u.tool_weight, 0) ELSE 0

\* lines 124-129, then 146-152: the part values the rest of the run uses
PartValues(u, ss) ==
    IF "historical_part_loaded" \in DOMAIN ss
    THEN LET loaded_part == ss.historical_part_loaded
         IN  [length |-> loaded_part.Length, width |-> loaded_part.Width,
              height |-> loaded_part.Height, weight |-> loaded_part.Weight]
    ELSE [length |-> number_input(u.length, 0), width |-> number_input(u.width, 0),
          height |-> number_input(u.height, 0), weight |-> number_input(u.weight, 0)]

\* lines 146-154
FinalPartName(u, ss) ==
    IF "historical_part_loaded" \in DOMAIN ss
    THEN ss.historical_part_loaded.Part_Name
    ELSE IF u.part_name # "" THEN u.part_name ELSE "(No Name)"

---------------------------------------------------------------------------
(* Step 4 and Step 5: the expressions of the feasibility calculation *)

\* a variant of line 196 that leaves the tool weight out
TotalCargoWeightNoTools(part_weight, num_mechanics, avg_mech_weight, tool_weight) ==
    Add(part_weight, Mul(num_mechanics, avg_mech_weight))

\* line 196
TotalCargoWeight(part_weight, num_mechanics, avg_mech_weight, tool_weight) ==
    Add(Add(part_weight, Mul(num_mechanics, avg_mech_weight)), tool_weight)

\* a variant of line 198 without the pd.notnull(seat_weight) test
AdditionalPayloadNoNullTest(seats, seat_weight) ==
    IF seats > 0 THEN Mul(seats, seat_weight) ELSE 0

\* line 198
AdditionalPayload(seats, seat_weight) ==
    IF seats > 0 /\ notnull(seat_weight) THEN seats * seat_weight ELSE 0

\* line 200
AvailablePayload(max_payload, additional) ==
    IF notnull(max_payload) THEN Add(max_payload, additional) ELSE NaN

\* a variant of lines 204-210 comparing with < instead of <=
PayloadMessageStrict(total, available) ==
    IF notnull(available)
    THEN IF notnull(total) /\ total < available THEN "payload_within" ELSE "payload_over"
    ELSE "payload_missing"

\* lines 204-210
PayloadMessage(total, available) ==
    IF notnull(available)
    THEN IF Leq(total, available) THEN "payload_within" ELSE "payload_over"
    ELSE "payload_missing"

\* a variant of lines 214-218 that tries one orientation only (as line 254 does)
FitsDoorOneOrientation(door_w, door_h, part_length, part_width) ==
    IF isnull(door_w) \/ isnull(door_h)
    THEN FALSE
    ELSE Leq(part_length, door_w) /\ Leq(part_width, door_h)

\* lines 214-218
FitsDoor(door_w, door_h, part_length, part_width) ==
    IF isnull(door_w) \/ isnull(door_h)
    THEN FALSE
    ELSE \/ Leq(part_length, door_w) /\ Leq(part_width, door_h)
         \/ Leq(part_length, door_h) /\ Leq(part_width, door_w)

\* a variant of lines 228-232 that also tries the part turned by 90 degrees
CabinFitWithRotation(cab_l, cab_w, cab_h, part_length, part_width, part_height) ==
    IF isnull(cab_l) \/ isnull(cab_w) \/ isnull(cab_h)
    THEN FALSE
    ELSE /\ Leq(part_height, cab_h)
         /\ \/ Leq(part_length, cab_l) /\ Leq(part_width, cab_w)
            \/ Leq(part_length, cab_w) /\ Leq(part_width, cab_l)

\* lines 228-232
CabinFit(cab_l, cab_w, cab_h, part_length, part_width, part_height) ==
    IF isnull(cab_l) \/ isnull(cab_w) \/ isnull(cab_h)
    THEN FALSE
    ELSE Leq(part_length, cab_l) /\ Leq(part_width, cab_w) /\ Leq(part_height, cab_h)

\* line 254, in create_cargo_visualization
CargoColor(door_w, door_h, cargo_length, cargo_width) ==
    IF Leq(cargo_length, door_w) /\ Leq(cargo_width, door_h) THEN "green" ELSE "red"

---------------------------------------------------------------------------
(* Bounds of the model *)

\* seats_removed ranges over 0..MaxSeatsRemoved
MaxSeatsRemoved == 2
\* "Number of Mechanics" ranges over 1..MaxMechanics
MaxMechanics == 2

\* values a user types into the cargo number inputs
Lengths == {45, 50, 55, 60, 90}
Widths == {45, 50, 55, 60, 65}
Heights == {40, 55}
Weights == {400, 500, 540}
MechWeights == {0, 200}
ToolWeights == {40}

\* values of the aircraft columns
DoorDims == {NaN, 50, 60}
CabinLengths == {NaN, 100}
CabinWidths == {NaN, 60}
CabinHeights == {NaN, 50}
MaxPayloads == {NaN, 500, 540}
SeatWeights == {NaN, 0, 20}

\* The values of seats_removed.  The script has no widget for it; the range
\* is that of the specification's SeatRemoval record: 0 <= seatsRemoved <=
\* removableSeatCount.
SeatsRemovedValues == 0..MaxSeatsRemoved

\* the state of a number_input over the values vs
Typed(vs) == {<<>>} \cup {<<v>> : v \in vs}

\* st.session_state once line 165 has run, with or without a loaded
\* historical part (lines 136-142)
NoSavedParts == [n \in {} |-> [Length |-> 0, Width |-> 0, Height |-> 0, Weight |-> 0]]

SessionStates ==
    {[saved_parts |-> NoSavedParts]}
    \cup {[saved_parts |-> NoSavedParts,
           historical_part_loaded |-> HistoricalPartRecord(n)] :
             n \in hist_part_options \ {NoneOption}}

\* every widget at its default
DefaultUi ==
    [aircraft |-> df_aircraft[1].Aircraft, hist_part |-> NoneOption,
     part_name |-> "", length |-> <<>>, width |-> <<>>, height |-> <<>>,
     weight |-> <<>>, mechanics_travel |-> FALSE, num_mechanics |-> <<>>,
     avg_mech_weight |-> <<>>, tool_weight |-> <<>>, saved_selected |-> NoneOption]

\* the aircraft rows the checks range over
AnyAircraft ==
    [Aircraft : {DefaultUi.aircraft}, Door_Width : DoorDims, Door_Height : DoorDims,
     Cabin_Length : CabinLengths, Cabin_Width : CabinWidths,
     Cabin_Height : CabinHeights, Max_Payload : MaxPayloads,
     Number_of_Seats : {4}, Removable_Seats : {MaxSeatsRemoved},
     Seat_Weight : SeatWeights]

\* what a run has computed before it reaches Step 4
BeforeStep4 ==
    /\ final_part_name = FinalPartName(ui, session_state)
    /\ part = PartValues(ui, session_state)
    /\ total_cargo_weight = 0
    /\ additional_payload = 0
    /\ available_payload = 0
    /\ fits_door = FALSE
    /\ cabin_fit = FALSE
    /\ color = "none"
    /\ messages = {}
    /\ interactions = 0

---------------------------------------------------------------------------
(* SpecPayload: lines 191-210 *)

InitPayload ==
    /\ ui \in {[DefaultUi EXCEPT !.weight = w] : w \in Typed(Weights)}
           \cup {[DefaultUi EXCEPT !.weight = w, !.mechanics_travel = TRUE,
                                   !.num_mechanics = n, !.avg_mech_weight = a,
                                   !.tool_weight = t] :
                    w \in Typed(Weights), n \in Typed(1..MaxMechanics),
                    a \in Typed(MechWeights), t \in Typed(ToolWeights)}
    /\ session_state \in SessionStates
    /\ selected_aircraft \in {a \in AnyAircraft :
                                 /\ a.Door_Width = 60 /\ a.Door_Height = 50
                                 /\ a.Cabin_Length = 100 /\ a.Cabin_Width = 60
                                 /\ a.Cabin_Height = 50}
    /\ seats_removed \in SeatsRemovedValues
    /\ BeforeStep4
    /\ pc = "step4"

\* lines 191-210: required and available payload, and the payload message
Step4Payload ==
    /\ pc = "step4"
    /\ total_cargo_weight' = TotalCargoWeight(part.weight, NumMechanics(ui),
                                              AvgMechWeight(ui), ToolWeight(ui))
    /\ additional_payload' = AdditionalPayload(seats_removed, selected_aircraft.Seat_Weight)
    /\ available_payload' = AvailablePayload(selected_aircraft.Max_Payload,
                                             additional_payload')
    /\ messages' = messages \cup {PayloadMessage(total_cargo_weight', available_payload')}
    /\ pc' = "door"
    /\ UNCHANGED <<ui, session_state, selected_aircraft, final_part_name, part,
                   seats_removed, fits_door, cabin_fit, color, interactions>>

NextPayload == Step4Payload

SpecPayload == InitPayload /\ [][NextPayload]_vars

---------------------------------------------------------------------------
(* SpecFit: lines 212-269 *)

InitFit ==
    /\ ui \in {[DefaultUi EXCEPT !.length = l, !.width = w, !.height = h] :
                  l \in Typed(Lengths), w \in Typed(Widths), h \in Typed(Heights)}
    /\ session_state \in SessionStates
    /\ selected_aircraft \in {a \in AnyAircraft :
                                 a.Max_Payload = 500 /\ a.Seat_Weight = 20}
    /\ seats_removed = 0
    /\ BeforeStep4
    /\ pc = "door"

\* lines 212-223
DoorCheck ==
    /\ pc = "door"
    /\ LET door_w == selected_aircraft.Door_Width
           door_h == selected_aircraft.Door_Height
       IN  /\ fits_door' = FitsDoor(door_w, door_h, part.length, part.width)
           /\ messages' = messages
                  \cup (IF isnull(door_w) \/ isnull(door_h) THEN {"door_missing"} ELSE {})
                  \cup {IF fits_door' THEN "door_fits" ELSE "door_not_fit"}
    /\ pc' = "cabin"
    /\ UNCHANGED <<ui, session_state, selected_aircraft, final_part_name, part,
                   seats_removed, total_cargo_weight, additional_payload,
                   available_payload, cabin_fit, color, interactions>>

\* lines 225-237
CabinCheck ==
    /\ pc = "cabin"
    /\ LET cab_l == selected_aircraft.Cabin_Length
           cab_w == selected_aircraft.Cabin_Width
           cab_h == selected_aircraft.Cabin_Height
       IN  /\ cabin_fit' = CabinFit(cab_l, cab_w, cab_h,
                                    part.length, part.width, part.height)
           /\ messages' = messages
                  \cup (IF isnull(cab_l) \/ isnull(cab_w) \/ isnull(cab_h)
                        THEN {"cabin_missing"} ELSE {})
                  \cup {IF cabin_fit' THEN "cabin_fits" ELSE "cabin_not_fit"}
    /\ pc' = "visualization"
    /\ UNCHANGED <<ui, session_state, selected_aircraft, final_part_name, part,
                   seats_removed, total_cargo_weight, additional_payload,
                   available_payload, fits_door, color, interactions>>

\* lines 250-269
Visualization ==
    /\ pc = "visualization"
    /\ LET door_w == selected_aircraft.Door_Width
           door_h == selected_aircraft.Door_Height
       IN  IF notnull(door_w) /\ notnull(door_h)
           THEN /\ color' = CargoColor(door_w, door_h, part.length, part.width)
                /\ UNCHANGED messages
           ELSE /\ messages' = messages \cup {"visualization_unavailable"}
                /\ UNCHANGED color
    /\ pc' = "done"
    /\ UNCHANGED <<ui, session_state, selected_aircraft, final_part_name, part,
                   seats_removed, total_cargo_weight, additional_payload,
                   available_payload, fits_door, cabin_fit, interactions>>

NextFit == DoorCheck \/ CabinCheck \/ Visualization

SpecFit == InitFit /\ [][NextFit]_vars

---------------------------------------------------------------------------
(* Spec: the session.  Each action is one user interaction together with   *)
(* the script run Streamlit starts for it.                                 *)

\* a session is followed for MaxInteractions user interactions
MaxInteractions == 7
\* st.session_state.saved_parts holds at most MaxSavedParts names
MaxSavedParts == 2

\* values a user types during a session
SessionNames == {"", "Crate"}
SessionLengths == {90}
SessionWidths == {65}
SessionHeights == {55}
SessionWeights == {500}
SessionMechanics == {2}
SessionMechWeights == {200}
SessionToolWeights == {40}

\* lines 167-172: the entry Save Part stores
SavedEntry(p) ==
    [Length |-> p.length, Width |-> p.width, Height |-> p.height, Weight |-> p.weight]

\* lines 178-182: the part values after Load Selected Saved Part
LoadedEntry(loaded) ==
    [length |-> loaded.Length, width |-> loaded.Width,
     height |-> loaded.Height, weight |-> loaded.Weight]

\* line 167: st.session_state.saved_parts[final_part_name] = {...}
SaveInto(saved, name, entry) ==
    [n \in DOMAIN saved \cup {name} |-> IF n = name THEN entry ELSE saved[n]]

\* One run of the script, lines 75-198, on widget values u and session state
\* ss.  click names the button that returns True in this run: "none",
\* "save" (line 166) or "load_saved" (line 177).  The run ends at line 93
\* with ValueError when int() is applied to a NaN seat count, and otherwise
\* at line 198 with NameError, seats_removed being assigned nowhere.
ScriptRun(u, ss, click) ==
    LET row == AircraftRow(u.aircraft)
    IN  IF isnull(row.Number_of_Seats) \/ isnull(row.Removable_Seats)
        THEN [session_state |-> ss, selected_aircraft |-> row,
              final_part_name |-> "",
              part |-> [length |-> 0, width |-> 0, height |-> 0, weight |-> 0],
              total_cargo_weight |-> 0, messages |-> {}, pc |-> "ValueError"]
        ELSE LET name == FinalPartName(u, ss)
                 p == PartValues(u, ss)
                 ss2 == IF click = "save"
                        THEN [ss EXCEPT !.saved_parts =
                                            SaveInto(@, name, SavedEntry(p))]
                        ELSE ss
                 p2 == IF click = "load_saved"
                       THEN LoadedEntry(ss2.saved_parts[u.saved_selected])
                       ELSE p
                 said == IF click = "save" THEN {"saved_part"}
                         ELSE IF click = "load_saved" THEN {"loaded_saved_part"}
                         ELSE {}
             IN  [session_state |-> ss2, selected_aircraft |-> row,
                  final_part_name |-> name, part |-> p2,
                  total_cargo_weight |->
                      TotalCargoWeight(p2.weight, NumMechanics(u),
                                       AvgMechWeight(u), ToolWeight(u)),
                  messages |-> said, pc |-> "NameError"]

\* the state left by the run r
After(r) ==
    /\ interactions < MaxInteractions
    /\ interactions' = interactions + 1
    /\ session_state' = r.session_state
    /\ selected_aircraft' = r.selected_aircraft
    /\ final_part_name' = r.final_part_name
    /\ part' = r.part
    /\ total_cargo_weight' = r.total_cargo_weight
    /\ messages' = r.messages
    /\ pc' = r.pc
    /\ UNCHANGED <<seats_removed, additional_payload, available_payload,
                   fits_door, cabin_fit, color>>

\* a widget changes value and the script runs again
Interact(u) == ui' = u /\ After(ScriptRun(u, session_state, "none"))

\* the widgets below line 93 are on the page
Rendered == pc = "NameError"

\* the first run, every widget at its default
Init ==
    LET r == ScriptRun(DefaultUi, [saved_parts |-> NoSavedParts], "none")
    IN  /\ ui = DefaultUi
        /\ session_state = r.session_state
        /\ selected_aircraft = r.selected_aircraft
        /\ final_part_name = r.final_part_name
        /\ part = r.part
        /\ total_cargo_weight = r.total_cargo_weight
        /\ messages = r.messages
        /\ pc = r.pc
        /\ interactions = 0
        /\ seats_removed = 0
        /\ additional_payload = 0
        /\ available_payload = 0
        /\ fits_door = FALSE
        /\ cabin_fit = FALSE
        /\ color = "none"

\* line 80
SelectAircraft ==
    \E a \in aircraft_options \ {ui.aircraft} :
        Interact([ui EXCEPT !.aircraft = a])

\* lines 114-118
SelectHistoricalPart ==
    /\ Rendered
    /\ \E n \in hist_part_options \ {ui.hist_part} :
           Interact([ui EXCEPT !.hist_part = n])

\* line 121
EnterPartName ==
    /\ Rendered
    /\ \E n \in SessionNames \ {ui.part_name} :
           Interact([ui EXCEPT !.part_name = n])

\* line 124
EnterLength ==
    /\ Rendered
    /\ \E w \in Typed(SessionLengths) \ {ui.length} :
           Interact([ui EXCEPT !.length = w])

\* line 126
EnterWidth ==
    /\ Rendered
    /\ \E w \in Typed(SessionWidths) \ {ui.width} :
           Interact([ui EXCEPT !.width = w])

\* line 128
EnterHeight ==
    /\ Rendered
    /\ \E w \in Typed(SessionHeights) \ {ui.height} :
           Interact([ui EXCEPT !.height = w])

\* line 129
EnterWeight ==
    /\ Rendered
    /\ \E w \in Typed(SessionWeights) \ {ui.weight} :
           Interact([ui EXCEPT !.weight = w])

\* lines 132-143: the record is stored and st.experimental_rerun() starts the
\* script again, with no button pressed
ClickLoadHistoricalPart ==
    /\ Rendered
    /\ ui.hist_part # NoneOption
    /\ LET ss == [n \in DOMAIN session_state \cup {"historical_part_loaded"} |->
                     IF n = "historical_part_loaded"
                     THEN HistoricalPartRecord(ui.hist_part)
                     ELSE session_state[n]]
       IN  /\ ui' = ui
           /\ After(ScriptRun(ui, ss, "none"))

\* lines 166-173
ClickSavePart ==
    /\ Rendered
    /\ \/ final_part_name \in DOMAIN session_state.saved_parts
       \/ Cardinality(DOMAIN session_state.saved_parts) < MaxSavedParts
    /\ ui' = ui
    /\ After(ScriptRun(ui, session_state, "save"))

\* line 176
SelectSavedPart ==
    /\ Rendered
    /\ \E n \in ({NoneOption} \cup DOMAIN session_state.saved_parts) \ {ui.saved_selected} :
           Interact([ui EXCEPT !.saved_selected = n])

\* lines 177-183
ClickLoadSavedPart ==
    /\ Rendered
    /\ ui.saved_selected # NoneOption
    /\ ui' = ui
    /\ After(ScriptRun(ui, session_state, "load_saved"))

\* line 191
ToggleMechanics ==
    /\ Rendered
    /\ Interact([ui EXCEPT !.mechanics_travel = ~@])

\* line 192
EnterNumMechanics ==
    /\ Rendered /\ ui.mechanics_travel
    /\ \E w \in Typed(SessionMechanics) \ {ui.num_mechanics} :
           Interact([ui EXCEPT !.num_mechanics = w])

\* line 193
EnterAvgMechWeight ==
    /\ Rendered /\ ui.mechanics_travel
    /\ \E w \in Typed(SessionMechWeights) \ {ui.avg_mech_weight} :
           Interact([ui EXCEPT !.avg_mech_weight = w])

\* line 194
EnterToolWeight ==
    /\ Rendered /\ ui.mechanics_travel
    /\ \E w \in Typed(SessionToolWeights) \ {ui.tool_weight} :
           Interact([ui EXCEPT !.tool_weight = w])

Next ==
    \/ SelectAircraft
    \/ SelectHistoricalPart
    \/ EnterPartName
    \/ EnterLength
    \/ EnterWidth
    \/ EnterHeight
    \/ EnterWeight
    \/ ClickLoadHistoricalPart
    \/ ClickSavePart
    \/ SelectSavedPart
    \/ ClickLoadSavedPart
    \/ ToggleMechanics
    \/ EnterNumMechanics
    \/ EnterAvgMechWeight
    \/ EnterToolWeight

Spec == Init /\ [][Next]_vars

---------------------------------------------------------------------------
(* Properties of the payload arithmetic (SpecPayload) *)

PayloadDone == pc = "door" /\ messages # {}

\* C6: the required payload is the part weight plus mechanics times the
\* weight per mechanic plus the tool weight; without mechanics it is the part
\* weight exactly; with mechanics and no weight typed, 180 lbs each is used.
C6_RequiredPayload ==
    PayloadDone /\ notnull(part.weight) =>
        LET n == IF ui.num_mechanics = <<>> THEN 1 ELSE ui.num_mechanics[1]
            m == IF ui.avg_mech_weight = <<>> THEN 180 ELSE ui.avg_mech_weight[1]
            t == IF ui.tool_weight = <<>> THEN 0 ELSE ui.tool_weight[1]
        IN  /\ ~ui.mechanics_travel => total_cargo_weight = part.weight
            /\ ui.mechanics_travel => total_cargo_weight = part.weight + n * m + t

\* two mechanics at the default weight, 40 lbs of tools, a 400 lbs part
C6_Witness ==
    /\ PayloadDone
    /\ ui.mechanics_travel /\ ui.avg_mech_weight = <<>>
    /\ ui.num_mechanics = <<2>> /\ ui.tool_weight = <<40>>
    /\ part.weight = 400
    /\ total_cargo_weight = 800

---------------------------------------------------------------------------
(* Properties of the door and cabin checks (SpecFit) *)

DoorChecked == pc \in {"cabin", "visualization", "done"}
CabinChecked == pc \in {"visualization", "done"}
DoorKnown == selected_aircraft.Door_Width # NaN /\ selected_aircraft.Door_Height # NaN
CabinKnown ==
    /\ selected_aircraft.Cabin_Length # NaN
    /\ selected_aircraft.Cabin_Width # NaN
    /\ selected_aircraft.Cabin_Height # NaN

---------------------------------------------------------------------------
(* Properties of the session (Spec) *)

\* C3: the feasibility evaluation runs to completion on every input of its
\* domain: no run ends in an exception, and each run reports a payload, a
\* door and a cabin result.
C3_EvaluationCompletes ==
    /\ pc \notin {"ValueError", "NameError"}
    /\ messages \cap {"payload_within", "payload_over", "payload_missing"} # {}
    /\ messages \cap {"door_fits", "door_not_fit"} # {}
    /\ messages \cap {"cabin_fits", "cabin_not_fit"} # {}

\* C10: once a historical part is loaded, typing a new length, width, height,
\* weight or part name makes the run use the typed value: the part values of
\* the run (which Save Part stores, lines 167-172) and the required payload
\* are those of the number inputs, and the part name is the typed name.
C10_ManualEntryOverrides ==
    [][ "historical_part_loaded" \in DOMAIN session_state =>
          /\ ui'.length # ui.length =>
                 part'.length = number_input(ui'.length, 0)
          /\ ui'.width # ui.width =>
                 part'.width = number_input(ui'.width, 0)
          /\ ui'.height # ui.height =>
                 part'.height = number_input(ui'.height, 0)
          /\ ui'.weight # ui.weight =>
                 /\ part'.weight = number_input(ui'.weight, 0)
                 /\ total_cargo_weight' =
                        number_input(ui'.weight, 0)
                            + NumMechanics(ui') * AvgMechWeight(ui') + ToolWeight(ui')
          /\ (ui'.part_name # ui.part_name /\ ui'.part_name # "") =>
                 final_part_name' = ui'.part_name
      ]_vars

===========================================================================
